---------------------------- MODULE Spec2Model ----------------------------
(***************************************************************************)
(* The cluster topology registry of skyd (cluster.go).                     *)
(*                                                                         *)
(* A Cluster holds a slice of node-group handles (c.groups) and a mutex.   *)
(* Every method except serialize executes                                  *)
(*       c.mutex.Lock()                                                    *)
(*       c.mutex.Unlock()                                                  *)
(* as its first two statements, so its body runs after the mutex has been  *)
(* released again; serialize defers the Unlock and keeps the mutex to its  *)
(* return.  The model therefore follows every method statement by          *)
(* statement: a step is one access to shared memory (the slice header of   *)
(* c.groups, one element of a backing array, the node list of a group).    *)
(* The three-word slice header is read and written in one step, the        *)
(* element copies of one append call happen in one step, and a loop        *)
(* iteration that reads a group and asks it for a node or for its          *)
(* serialized form is one step.                                            *)
(***************************************************************************)
EXTENDS Integers, Sequences, FiniteSets, TLC

\* ------------------------------------------------------------- bounds ----
\* Number of NodeGroup objects with pairwise distinct ids, and of Node
\* objects with pairwise distinct ids, that the callers own.
NumGroupHandles == 2
NumNodeHandles == 2
\* AddNodeGroup is not called once c.groups holds this many entries.
MaxGroups == 2
\* Number of calls the first thread makes on its own before the threads
\* call concurrently, and number of concurrent calls of each thread.
MaxSetup == 3
MaxCalls == 1
\* Number of calls of the single caller of SpecSeq.
MaxCallsSeq == 4

\* ----------------------------------------------------------- constants ---
\* The nil pointer.
Nil == 0

Threads == {1, 2}
\* The thread that builds the cluster before the others start.
Main == CHOOSE t \in Threads : \A u \in Threads : t <= u

\* Handles are object identities.  Handle h of 1 .. NumGroupHandles has id h;
\* GroupCopy is one more NodeGroup object, with the id of the last of them
\* (a detached copy).  The same for nodes.
GroupHandles == 1 .. NumGroupHandles
GroupCopy == NumGroupHandles + 1
AllGroupHandles == GroupHandles \cup {GroupCopy}
NodeHandles == 1 .. NumNodeHandles
NodeCopy == NumNodeHandles + 1
AllNodeHandles == NodeHandles \cup {NodeCopy}
\* group.id and node.id
GroupId(h) == IF h = GroupCopy THEN NumGroupHandles ELSE h
NodeId(n) == IF n = NodeCopy THEN NumNodeHandles ELSE n
GroupIds == {GroupId(h) : h \in GroupHandles}
NodeIds == {NodeId(n) : n \in NodeHandles}

\* Error values.
ErrNone == "nil"
NodeGroupRequiredError == "Node group required"
NodeGroupNotFoundError == "Node group not found"
DuplicateNodeError == "Duplicate node already exists"
NodeRequiredError == "Node required"
NodeNotFoundError == "Node not found"
\* The error of a group's own addNode / removeNode.
GroupMemberError == "group: node membership"

\* ------------------------------------------------------------- slices ----
\* A Go slice value: backing array, length, capacity.  arr = 0: no array.
NoSlice == [arr |-> 0, len |-> 0, cap |-> 0]
ArrIds == 1 .. (1 + 2 * Cardinality(Threads))

VARIABLES
    groups,   \* c.groups: the slice header stored in the Cluster
    heap,     \* backing arrays of []*NodeGroup, by array id
    nodes,    \* the member nodes of each NodeGroup object
    mutex,    \* c.mutex: 0 when free, else the thread holding it
    th,       \* per thread: program counter, arguments, locals, result
    seen      \* per thread inside serialize: the values c.groups has had

vars == <<groups, heap, nodes, mutex, th, seen>>

\* The sequence a slice value denotes on a heap.
SliceSeq(hp, s) == [k \in 1 .. s.len |-> hp[s.arr][k]]
\* The current value of c.groups as a sequence of handles.
GroupsSeq == SliceSeq(heap, groups)

\* The result of a finished call.
NoRet == [err |-> ErrNone, node |-> Nil, group |-> Nil, out |-> <<>>]
\* No previous call that changed the cluster.
NoCall == [op |-> "none", argGroup |-> Nil, argNode |-> Nil]
NoPre == [gs |-> <<>>, nodes |-> <<>>]

\* The locals of a thread that is not inside a call.
Fresh(budget) ==
    [pc |-> "idle", op |-> "none", argGroup |-> Nil, argNode |-> Nil, id |-> 0,
     key |-> 0, group |-> Nil, node |-> Nil, s |-> NoSlice, dst |-> NoSlice,
     index |-> 0, j |-> 0, x |-> Nil, y |-> Nil, out |-> <<>>,
     ret |-> NoRet, traced |-> FALSE, pre |-> NoPre, prev |-> NoCall,
     budget |-> budget]

\* Arrays some slice value still points to.
Referenced(ng, nth) ==
    {ng.arr} \cup {nth[u].s.arr : u \in Threads} \cup {nth[u].dst.arr : u \in Threads}

\* One step of the program: the new values of all variables.  Arrays nothing
\* points to any more are collected; seen accumulates the values c.groups has
\* between the call of serialize and its return.
Commit(nth, ng, nh, nn, nm) ==
    /\ th' = nth
    /\ groups' = ng
    /\ heap' = [a \in ArrIds |-> IF a \in Referenced(ng, nth) THEN nh[a] ELSE <<>>]
    /\ nodes' = nn
    /\ mutex' = nm
    /\ seen' = [u \in Threads |->
                  IF nth[u].op # "serialize" THEN {}
                  ELSE IF th[u].pc = "done" THEN seen[u]
                  ELSE (IF th[u].op = "serialize" THEN seen[u] ELSE {})
                         \cup {SliceSeq(nh, ng)}]

\* A thread's locals changed, nothing else.
Local(t, r) == Commit([th EXCEPT ![t] = r], groups, heap, nodes, mutex)

\* No goroutine has panicked (a panic ends the process).
Alive == \A u \in Threads : th[u].pc # "panic"
At(t, label) == Alive /\ th[t].pc = label

\* return: the call's result; the locals of the call are dropped.
Return(t, r) ==
    [Fresh(th[t].budget) EXCEPT
        !.pc = "done", !.op = th[t].op, !.argGroup = th[t].argGroup,
        !.argNode = th[t].argNode, !.id = th[t].id, !.ret = r,
        !.traced = th[t].traced, !.pre = th[t].pre, !.prev = th[t].prev]
RetErr(e) == [NoRet EXCEPT !.err = e]

\* ----------------------------------------------------------- Init --------
InitWith(b) ==
    /\ groups = NoSlice
    /\ heap = [a \in ArrIds |-> <<>>]
    /\ nodes = [h \in AllGroupHandles |-> <<>>]
    /\ mutex = 0
    /\ th = [t \in Threads |-> Fresh(b[t])]
    /\ seen = [t \in Threads |-> {}]

\* NewCluster(); Main makes MaxSetup calls, then every thread MaxCalls calls.
Init == InitWith([t \in Threads |-> IF t = Main THEN MaxSetup + MaxCalls
                                      ELSE MaxCalls])
\* NewCluster(), with Main the single caller.
InitSeq == InitWith([t \in Threads |-> IF t = Main THEN MaxCallsSeq ELSE 0])

\* NewCluster(), with Main the single caller of any number of calls: its
\* count of calls left stays as it is.
InitLong == InitWith([t \in Threads |-> IF t = Main THEN MaxCalls ELSE 0])

\* ----------------------------------------------------------- calls -------
\* A caller invokes a method with its arguments.  A traced caller (the
\* single caller of SpecSeq) remembers the state at the call.
Call(t, op, g, n, id, traced) ==
    /\ At(t, "idle")
    /\ th[t].budget > 0
    /\ t # Main => th[Main].budget <= MaxCalls
    /\ Local(t, [th[t] EXCEPT !.pc = "lock", !.op = op, !.argGroup = g,
                              !.argNode = n, !.id = id, !.key = id, !.group = g,
                              !.node = n, !.ret = NoRet, !.traced = traced,
                              !.pre = IF traced
                                      THEN [gs |-> GroupsSeq, nodes |-> nodes]
                                      ELSE NoPre])

\* The calls of concurrent callers, with groups and nodes of distinct ids.
CallGetNodeGroup(t) ==
    \E id \in GroupIds : Call(t, "GetNodeGroup", Nil, Nil, id, FALSE)
CallAddNodeGroup(t) ==
    /\ groups.len < MaxGroups
    /\ \E g \in GroupHandles : Call(t, "AddNodeGroup", g, Nil, 0, FALSE)
CallRemoveNodeGroup(t) ==
    \E g \in GroupHandles : Call(t, "RemoveNodeGroup", g, Nil, 0, FALSE)
CallGetNode(t) == \E id \in NodeIds : Call(t, "GetNode", Nil, Nil, id, FALSE)
CallAddNode(t) ==
    \E n \in NodeHandles, g \in GroupHandles : Call(t, "AddNode", g, n, 0, FALSE)
CallRemoveNode(t) ==
    \E n \in NodeHandles : Call(t, "RemoveNode", Nil, n, 0, FALSE)
CallSerialize(t) == Call(t, "serialize", Nil, Nil, 0, FALSE)

\* The calls of the single caller: also nil arguments and the second
\* objects with an id already in use.
SeqGetNodeGroup(t) ==
    \E id \in GroupIds : Call(t, "GetNodeGroup", Nil, Nil, id, TRUE)
SeqAddNodeGroup(t) ==
    /\ groups.len < MaxGroups
    /\ \E g \in AllGroupHandles : Call(t, "AddNodeGroup", g, Nil, 0, TRUE)
SeqRemoveNodeGroup(t) ==
    \E g \in AllGroupHandles \cup {Nil} : Call(t, "RemoveNodeGroup", g, Nil, 0, TRUE)
SeqGetNode(t) == \E id \in NodeIds : Call(t, "GetNode", Nil, Nil, id, TRUE)
SeqAddNode(t) ==
    \E n \in AllNodeHandles \cup {Nil}, g \in AllGroupHandles \cup {Nil} :
        Call(t, "AddNode", g, n, 0, TRUE)
SeqRemoveNode(t) ==
    \E n \in AllNodeHandles \cup {Nil} : Call(t, "RemoveNode", Nil, n, 0, TRUE)
SeqSerialize(t) == Call(t, "serialize", Nil, Nil, 0, TRUE)

\* The methods that change the cluster when they return nil.
Mutators == {"AddNodeGroup", "RemoveNodeGroup", "AddNode", "RemoveNode"}

\* The caller takes the result.  A traced caller remembers the call as its
\* previous call when it was a successful call of a method that changes the
\* cluster.
Finish(t) ==
    /\ At(t, "done")
    /\ Local(t, [Fresh(th[t].budget - 1) EXCEPT
                    !.prev = IF /\ th[t].traced
                                /\ th[t].op \in Mutators
                                /\ th[t].ret.err = ErrNone
                             THEN [op |-> th[t].op, argGroup |-> th[t].argGroup,
                                   argNode |-> th[t].argNode]
                             ELSE NoCall])

\* The calls of the single caller that calls any number of times, with the
\* groups and nodes of distinct ids.
LongGetNodeGroup(t) ==
    \E id \in GroupIds : Call(t, "GetNodeGroup", Nil, Nil, id, TRUE)
LongAddNodeGroup(t) ==
    /\ groups.len < MaxGroups
    /\ \E g \in GroupHandles : Call(t, "AddNodeGroup", g, Nil, 0, TRUE)
LongRemoveNodeGroup(t) ==
    \E g \in GroupHandles : Call(t, "RemoveNodeGroup", g, Nil, 0, TRUE)
LongGetNode(t) == \E id \in NodeIds : Call(t, "GetNode", Nil, Nil, id, TRUE)
LongAddNode(t) ==
    \E n \in NodeHandles, g \in GroupHandles : Call(t, "AddNode", g, n, 0, TRUE)
LongRemoveNode(t) ==
    \E n \in NodeHandles : Call(t, "RemoveNode", Nil, n, 0, TRUE)
LongSerialize(t) == Call(t, "serialize", Nil, Nil, 0, TRUE)

\* That caller takes the result and remembers the call as Finish does.
LongFinish(t) ==
    /\ At(t, "done")
    /\ Local(t, [Fresh(th[t].budget) EXCEPT
                    !.prev = IF /\ th[t].op \in Mutators
                                /\ th[t].ret.err = ErrNone
                             THEN [op |-> th[t].op, argGroup |-> th[t].argGroup,
                                   argNode |-> th[t].argNode]
                             ELSE NoCall])

\* ----------------------------------------------------------- mutex -------
\* c.mutex.Lock()
Lock(t) ==
    /\ At(t, "lock")
    /\ mutex = 0
    /\ Commit([th EXCEPT ![t].pc = IF th[t].op = "serialize"
                                    THEN "ser_hdr" ELSE "unlock"],
              groups, heap, nodes, t)

\* Entry with RemoveNodeGroup lacking its check for a nil group.
Entry_NoGroupCheck(t) ==
    LET r == th[t] IN
    CASE r.op = "GetNodeGroup" -> [r EXCEPT !.pc = "gng_hdr"]
      [] r.op = "AddNodeGroup" -> [r EXCEPT !.pc = "ang_read"]
      [] r.op = "RemoveNodeGroup" -> [r EXCEPT !.pc = "rng_hdr"]
      [] r.op = "GetNode" -> [r EXCEPT !.pc = "gn_hdr"]
      [] OTHER ->
            IF r.node = Nil THEN Return(t, RetErr(NodeRequiredError))
            ELSE [r EXCEPT !.pc = "gn_hdr", !.key = NodeId(r.node)]

\* The argument checks that open RemoveNodeGroup, AddNode and RemoveNode,
\* and the first statement of each method that touches the cluster.
Entry(t) ==
    LET r == th[t] IN
    CASE r.op = "GetNodeGroup" -> [r EXCEPT !.pc = "gng_hdr"]
      [] r.op = "AddNodeGroup" -> [r EXCEPT !.pc = "ang_read"]
      [] r.op = "RemoveNodeGroup" ->
            IF r.group = Nil THEN Return(t, RetErr(NodeGroupRequiredError))
            ELSE [r EXCEPT !.pc = "rng_hdr"]
      [] r.op = "GetNode" -> [r EXCEPT !.pc = "gn_hdr"]
      [] OTHER ->
            IF r.node = Nil THEN Return(t, RetErr(NodeRequiredError))
            ELSE [r EXCEPT !.pc = "gn_hdr", !.key = NodeId(r.node)]

\* c.mutex.Unlock(), the statement right after Lock() in every method but
\* serialize; the method's argument check follows.
Unlock(t) ==
    /\ At(t, "unlock")
    /\ Commit([th EXCEPT ![t] = Entry(t)], groups, heap, nodes, 0)

\* ----------------------------------------------------------- helpers -----
\* data[k] of a slice, k counted from 0.
Elem(s, k) == heap[s.arr][k + 1]
\* The heap with data[k] of slice s set to v.
Store(s, k, v) == [heap EXCEPT ![s.arr][k + 1] = v]
\* An array id no slice value points to.
FreeArr == CHOOSE a \in ArrIds \ Referenced(groups, th) :
              \A b \in ArrIds \ Referenced(groups, th) : a <= b
\* The capacity the runtime gives a slice that must grow to hold `needed`.
GrowCap(cap, needed) == IF 2 * cap >= needed THEN 2 * cap ELSE needed
\* A new array of capacity cap holding the sequence q.
NewArray(q, cap) == [k \in 1 .. cap |-> IF k <= Len(q) THEN q[k] ELSE Nil]

\* NodeGroups.Less: the natural order of groups, by id.
GroupKey(h) == GroupId(h)
Less(a, b) == GroupKey(a) < GroupKey(b)
\* A sequence of handles is in non-decreasing key order.
Sorted(q) == \A k \in 1 .. Len(q) - 1 : ~Less(q[k + 1], q[k])

\* NodeGroup.getNode(id): the first member with this id, or nil.
GroupGetNode(members, id) ==
    IF \E k \in 1 .. Len(members) : NodeId(members[k]) = id
    THEN members[CHOOSE k \in 1 .. Len(members) :
                    /\ NodeId(members[k]) = id
                    /\ \A m \in 1 .. k - 1 : NodeId(members[m]) # id]
    ELSE Nil
\* NodeGroup.Serialize(): the group's id and its nodes.
GroupSerialize(h) == [handle |-> h, id |-> GroupId(h), nodes |-> nodes[h]]

\* ----------------------------------------------------------- getNodeGroup
\* AfterGetNodeGroup with AddNode inserting into the group the caller
\* supplied instead of the group found in c.groups.
AfterGetNodeGroup_Supplied(t, g) ==
    IF th[t].op = "GetNodeGroup"
    THEN Return(t, [NoRet EXCEPT !.group = g])
    ELSE IF g = Nil
         THEN Return(t, RetErr(NodeGroupNotFoundError))
         ELSE [th[t] EXCEPT !.pc = "ga_read", !.group = th[t].argGroup,
                            !.s = NoSlice, !.index = 0]

\* What the caller of getNodeGroup does with its result g.
AfterGetNodeGroup(t, g) ==
    IF th[t].op = "GetNodeGroup"
    THEN Return(t, [NoRet EXCEPT !.group = g])
    ELSE IF g = Nil
         THEN Return(t, RetErr(NodeGroupNotFoundError))
         ELSE [th[t] EXCEPT !.pc = "ga_read", !.group = g, !.s = NoSlice,
                            !.index = 0]

\* for _, group := range c.groups: the range expression is evaluated once;
\* return nil for an empty slice.
getNodeGroupRange(t) ==
    /\ At(t, "gng_hdr")
    /\ IF groups.len = 0
       THEN Local(t, AfterGetNodeGroup(t, Nil))
       ELSE Local(t, [th[t] EXCEPT !.pc = "gng_elem", !.s = groups, !.index = 0])

\* One iteration: if group.id == id { return group }; after the last one,
\* return nil.
getNodeGroupElem(t) ==
    /\ At(t, "gng_elem")
    /\ LET r == th[t] IN
       IF GroupId(Elem(r.s, r.index)) = r.key
       THEN Local(t, AfterGetNodeGroup(t, Elem(r.s, r.index)))
       ELSE IF r.index + 1 < r.s.len
            THEN Local(t, [r EXCEPT !.index = r.index + 1])
            ELSE Local(t, AfterGetNodeGroup(t, Nil))

\* ----------------------------------------------------------- AddNodeGroup
\* append(c.groups, group) reads c.groups.
AddNodeGroupRead(t) ==
    /\ At(t, "ang_read")
    /\ Local(t, [th[t] EXCEPT !.pc = "ang_store", !.s = groups])

\* append stores the group behind the last element when the capacity
\* allows, and otherwise in a copy of the elements in a new, larger array.
AddNodeGroupStore(t) ==
    /\ At(t, "ang_store")
    /\ LET r == th[t]
           s == r.s
       IN IF s.len < s.cap
          THEN Commit([th EXCEPT ![t] = [r EXCEPT !.pc = "ang_whdr",
                                                  !.s.len = s.len + 1]],
                      groups, Store(s, s.len, r.group), nodes, mutex)
          ELSE LET a == FreeArr
                   cap == GrowCap(s.cap, s.len + 1)
               IN Commit([th EXCEPT ![t] = [r EXCEPT !.pc = "ang_whdr",
                               !.s = [arr |-> a, len |-> s.len + 1, cap |-> cap]]],
                         groups,
                         [heap EXCEPT ![a] =
                             NewArray(Append(SliceSeq(heap, s), r.group), cap)],
                         nodes, mutex)

\* c.groups = <the result of append>
AddNodeGroupAssign(t) ==
    /\ At(t, "ang_whdr")
    /\ Commit([th EXCEPT ![t] = [th[t] EXCEPT !.pc = "sort_hdr", !.s = NoSlice]],
              th[t].s, heap, nodes, mutex)

\* sort.Sort on fewer than eight elements is insertionSort(data, 0, n):
\*   for i := 1; i < n; i++ {
\*       for j := i; j > 0 && data.Less(j, j-1); j-- { data.Swap(j, j-1) } }
\* index is i.  The record after the inner loop of i has ended:
SortNextI(t, r) ==
    IF r.index + 1 < r.s.len
    THEN [r EXCEPT !.pc = "sort_less", !.index = r.index + 1, !.j = r.index + 1]
    ELSE Return(t, NoRet)

\* NodeGroups(c.groups) reads c.groups; data.Len().
SortBegin(t) ==
    /\ At(t, "sort_hdr")
    /\ IF groups.len < 2
       THEN Local(t, Return(t, NoRet))
       ELSE Local(t, [th[t] EXCEPT !.pc = "sort_less", !.s = groups,
                                   !.index = 1, !.j = 1])

\* data.Less(j, j-1) reads both elements.
SortLess(t) ==
    /\ At(t, "sort_less")
    /\ LET r == th[t] IN
       IF Less(Elem(r.s, r.j), Elem(r.s, r.j - 1))
       THEN Local(t, [r EXCEPT !.pc = "sort_swap"])
       ELSE Local(t, SortNextI(t, r))

\* data.Swap(j, j-1): s[j], s[j-1] = s[j-1], s[j] reads both elements ...
SortSwapRead(t) ==
    /\ At(t, "sort_swap")
    /\ LET r == th[t] IN
       Local(t, [r EXCEPT !.pc = "sort_w1", !.x = Elem(r.s, r.j - 1),
                          !.y = Elem(r.s, r.j)])

\* ... then writes s[j] ...
SortSwapWrite1(t) ==
    /\ At(t, "sort_w1")
    /\ LET r == th[t] IN
       Commit([th EXCEPT ![t] = [r EXCEPT !.pc = "sort_w2", !.x = Nil]],
              groups, Store(r.s, r.j, r.x), nodes, mutex)

\* ... and s[j-1]; j--.
SortSwapWrite2(t) ==
    /\ At(t, "sort_w2")
    /\ LET r == th[t]
           r2 == [r EXCEPT !.y = Nil, !.j = r.j - 1, !.pc = "sort_less"]
       IN Commit([th EXCEPT ![t] = IF r2.j > 0 THEN r2 ELSE SortNextI(t, r2)],
                 groups, Store(r.s, r.j - 1, r.y), nodes, mutex)

\* ----------------------------------------------------------- RemoveNodeGroup
\* for index, g := range c.groups; return NodeGroupNotFoundError for an
\* empty slice.
RemoveNodeGroupRange(t) ==
    /\ At(t, "rng_hdr")
    /\ IF groups.len = 0
       THEN Local(t, Return(t, RetErr(NodeGroupNotFoundError)))
       ELSE Local(t, [th[t] EXCEPT !.pc = "rng_elem", !.s = groups, !.index = 0])

\* RemoveNodeGroupElem comparing the ids of the groups instead of the
\* objects.
RemoveNodeGroupElem_ById(t) ==
    /\ At(t, "rng_elem")
    /\ LET r == th[t] IN
       IF GroupId(Elem(r.s, r.index)) = GroupId(r.group)
       THEN Local(t, [r EXCEPT !.pc = "rng_sl1", !.s = NoSlice])
       ELSE IF r.index + 1 < r.s.len
            THEN Local(t, [r EXCEPT !.index = r.index + 1])
            ELSE Local(t, Return(t, RetErr(NodeGroupNotFoundError)))

\* RemoveNodeGroupElem with the loop cutting c.groups off at the last index
\* when no entry is the group, before it returns NodeGroupNotFoundError.
RemoveNodeGroupElem_CutOnMiss(t) ==
    /\ At(t, "rng_elem")
    /\ LET r == th[t] IN
       IF Elem(r.s, r.index) = r.group
       THEN Local(t, [r EXCEPT !.pc = "rng_sl1", !.s = NoSlice])
       ELSE IF r.index + 1 < r.s.len
            THEN Local(t, [r EXCEPT !.index = r.index + 1])
            ELSE Commit([th EXCEPT ![t] = Return(t, RetErr(NodeGroupNotFoundError))],
                        [groups EXCEPT !.len = r.index], heap, nodes, mutex)

\* One iteration: if g == group (the same object); return
\* NodeGroupNotFoundError after the last one.
RemoveNodeGroupElem(t) ==
    /\ At(t, "rng_elem")
    /\ LET r == th[t] IN
       IF Elem(r.s, r.index) = r.group
       THEN Local(t, [r EXCEPT !.pc = "rng_sl1", !.s = NoSlice])
       ELSE IF r.index + 1 < r.s.len
            THEN Local(t, [r EXCEPT !.index = r.index + 1])
            ELSE Local(t, Return(t, RetErr(NodeGroupNotFoundError)))

\* c.groups[:index] reads c.groups; index beyond the capacity panics.
RemoveNodeGroupSliceLow(t) ==
    /\ At(t, "rng_sl1")
    /\ LET r == th[t] IN
       IF r.index > groups.cap
       THEN Local(t, [r EXCEPT !.pc = "panic"])
       ELSE Local(t, [r EXCEPT !.pc = "rng_sl2",
                        !.dst = [groups EXCEPT !.len = r.index]])

\* c.groups[index+1:] reads c.groups; index+1 beyond the length panics.
\* s holds the array and the end of that slice; it starts at index+1.
RemoveNodeGroupSliceHigh(t) ==
    /\ At(t, "rng_sl2")
    /\ LET r == th[t] IN
       IF r.index + 1 > groups.len
       THEN Local(t, [r EXCEPT !.pc = "panic"])
       ELSE Local(t, [r EXCEPT !.pc = "rng_move", !.s = groups])

\* RemoveNodeGroupMove with the result keeping the length of c.groups: the
\* tail is moved down and its last element stays where it was.
RemoveNodeGroupMove_KeepLen(t) ==
    /\ At(t, "rng_move")
    /\ LET r == th[t]
           tail == [k \in 1 .. r.s.len - (r.index + 1) |->
                        heap[r.s.arr][r.index + 1 + k]]
           n == r.index + Len(tail)
       IN Commit([th EXCEPT ![t] = [r EXCEPT !.pc = "rng_whdr", !.s = NoSlice,
                                               !.dst.len = r.s.len]],
                 groups,
                 [heap EXCEPT ![r.dst.arr] =
                     [k \in 1 .. r.dst.cap |->
                         IF k > r.index /\ k <= n THEN tail[k - r.index]
                         ELSE heap[r.dst.arr][k]]],
                 nodes, mutex)

\* RemoveNodeGroupMove with the result being c.groups[:index] alone: the
\* entries behind the removed one are dropped with it.
RemoveNodeGroupMove_DropTail(t) ==
    /\ At(t, "rng_move")
    /\ Local(t, [th[t] EXCEPT !.pc = "rng_whdr", !.s = NoSlice])

\* append(c.groups[:index], c.groups[index+1:]...) moves the tail down, in
\* place when the capacity of the first slice allows.
RemoveNodeGroupMove(t) ==
    /\ At(t, "rng_move")
    /\ LET r == th[t]
           tail == [k \in 1 .. r.s.len - (r.index + 1) |->
                        heap[r.s.arr][r.index + 1 + k]]
           n == r.index + Len(tail)
       IN IF n <= r.dst.cap
          THEN Commit([th EXCEPT ![t] = [r EXCEPT !.pc = "rng_whdr", !.s = NoSlice,
                                                  !.dst.len = n]],
                      groups,
                      [heap EXCEPT ![r.dst.arr] =
                          [k \in 1 .. r.dst.cap |->
                              IF k > r.index /\ k <= n THEN tail[k - r.index]
                              ELSE heap[r.dst.arr][k]]],
                      nodes, mutex)
          ELSE LET a == FreeArr
                   cap == GrowCap(r.dst.cap, n)
               IN Commit([th EXCEPT ![t] = [r EXCEPT !.pc = "rng_whdr",
                               !.s = NoSlice,
                               !.dst = [arr |-> a, len |-> n, cap |-> cap]]],
                         groups,
                         [heap EXCEPT ![a] =
                             NewArray(SliceSeq(heap, r.dst) \o tail, cap)],
                         nodes, mutex)

\* c.groups = <the result of append>; return nil
RemoveNodeGroupAssign(t) ==
    /\ At(t, "rng_whdr")
    /\ Commit([th EXCEPT ![t] = Return(t, NoRet)], th[t].dst, heap, nodes, mutex)

\* ----------------------------------------------------------- getNode -----
\* AfterGetNode with AddNode lacking the check for a node id the cluster
\* already has.
AfterGetNode_NoDupCheck(t, n, g) ==
    LET r == th[t] IN
    CASE r.op = "GetNode" -> Return(t, [NoRet EXCEPT !.node = n, !.group = g])
      [] r.op = "AddNode" ->
            IF r.group = Nil THEN Return(t, RetErr(NodeGroupRequiredError))
            ELSE [r EXCEPT !.pc = "gng_hdr", !.key = GroupId(r.group),
                           !.s = NoSlice, !.index = 0]
      [] OTHER ->
            IF n = Nil THEN Return(t, RetErr(NodeNotFoundError))
            ELSE [r EXCEPT !.pc = "gr_read", !.node = n, !.group = g,
                           !.s = NoSlice, !.index = 0]

\* AfterGetNode with RemoveNode returning nil for a node it did not find.
AfterGetNode_MissingOk(t, n, g) ==
    LET r == th[t] IN
    CASE r.op = "GetNode" -> Return(t, [NoRet EXCEPT !.node = n, !.group = g])
      [] r.op = "AddNode" ->
            IF n # Nil THEN Return(t, RetErr(DuplicateNodeError))
            ELSE IF r.group = Nil THEN Return(t, RetErr(NodeGroupRequiredError))
            ELSE [r EXCEPT !.pc = "gng_hdr", !.key = GroupId(r.group),
                           !.s = NoSlice, !.index = 0]
      [] OTHER ->
            IF n = Nil THEN Return(t, NoRet)
            ELSE [r EXCEPT !.pc = "gr_read", !.node = n, !.group = g,
                           !.s = NoSlice, !.index = 0]

\* AfterGetNode with AddNode checking the group for nil before it checks the
\* node id against the cluster.
AfterGetNode_GroupFirst(t, n, g) ==
    LET r == th[t] IN
    CASE r.op = "GetNode" -> Return(t, [NoRet EXCEPT !.node = n, !.group = g])
      [] r.op = "AddNode" ->
            IF r.group = Nil THEN Return(t, RetErr(NodeGroupRequiredError))
            ELSE IF n # Nil THEN Return(t, RetErr(DuplicateNodeError))
            ELSE [r EXCEPT !.pc = "gng_hdr", !.key = GroupId(r.group),
                           !.s = NoSlice, !.index = 0]
      [] OTHER ->
            IF n = Nil THEN Return(t, RetErr(NodeNotFoundError))
            ELSE [r EXCEPT !.pc = "gr_read", !.node = n, !.group = g,
                           !.s = NoSlice, !.index = 0]

\* What the caller of getNode does with its result (n, g).
AfterGetNode(t, n, g) ==
    LET r == th[t] IN
    CASE r.op = "GetNode" -> Return(t, [NoRet EXCEPT !.node = n, !.group = g])
      [] r.op = "AddNode" ->
            IF n # Nil THEN Return(t, RetErr(DuplicateNodeError))
            ELSE IF r.group = Nil THEN Return(t, RetErr(NodeGroupRequiredError))
            ELSE [r EXCEPT !.pc = "gng_hdr", !.key = GroupId(r.group),
                           !.s = NoSlice, !.index = 0]
      [] OTHER ->
            IF n = Nil THEN Return(t, RetErr(NodeNotFoundError))
            ELSE [r EXCEPT !.pc = "gr_read", !.node = n, !.group = g,
                           !.s = NoSlice, !.index = 0]

\* for _, group := range c.groups; return nil, nil for an empty slice.
getNodeRange(t) ==
    /\ At(t, "gn_hdr")
    /\ IF groups.len = 0
       THEN Local(t, AfterGetNode(t, Nil, Nil))
       ELSE Local(t, [th[t] EXCEPT !.pc = "gn_elem", !.s = groups, !.index = 0])

\* One iteration: if node := group.getNode(id); node != nil { return node,
\* group }; after the last one, return nil, nil.
getNodeElem(t) ==
    /\ At(t, "gn_elem")
    /\ LET r == th[t]
           g == Elem(r.s, r.index)
           n == GroupGetNode(nodes[g], r.key)
       IN IF n # Nil
          THEN Local(t, AfterGetNode(t, n, g))
          ELSE IF r.index + 1 < r.s.len
               THEN Local(t, [r EXCEPT !.index = r.index + 1])
               ELSE Local(t, AfterGetNode(t, Nil, Nil))

\* ----------------------------------------------------------- AddNode -----
\* group.addNode(node) reads the group's nodes and refuses a second node
\* with the same id ...
groupAddNodeRead(t) ==
    /\ At(t, "ga_read")
    /\ LET r == th[t] IN
       IF GroupGetNode(nodes[r.group], NodeId(r.node)) # Nil
       THEN Local(t, Return(t, RetErr(GroupMemberError)))
       ELSE Local(t, [r EXCEPT !.pc = "ga_write", !.out = nodes[r.group]])

\* ... and stores the nodes it read with the node appended.
groupAddNodeWrite(t) ==
    /\ At(t, "ga_write")
    /\ LET r == th[t] IN
       Commit([th EXCEPT ![t] = Return(t, NoRet)], groups, heap,
              [nodes EXCEPT ![r.group] = Append(r.out, r.node)], mutex)

\* ----------------------------------------------------------- RemoveNode --
\* A sequence without its first occurrence of v.
Without(q, v) ==
    LET p == CHOOSE k \in 1 .. Len(q) :
                 q[k] = v /\ \A m \in 1 .. k - 1 : q[m] # v
    IN [k \in 1 .. Len(q) - 1 |-> IF k < p THEN q[k] ELSE q[k + 1]]

\* group.removeNode(node) reads the group's nodes ...
groupRemoveNodeRead(t) ==
    /\ At(t, "gr_read")
    /\ LET r == th[t] IN
       IF \A k \in 1 .. Len(nodes[r.group]) : nodes[r.group][k] # r.node
       THEN Local(t, Return(t, RetErr(GroupMemberError)))
       ELSE Local(t, [r EXCEPT !.pc = "gr_write", !.out = nodes[r.group]])

\* ... and stores them without the node.
groupRemoveNodeWrite(t) ==
    /\ At(t, "gr_write")
    /\ LET r == th[t] IN
       Commit([th EXCEPT ![t] = Return(t, NoRet)], groups, heap,
              [nodes EXCEPT ![r.group] = Without(r.out, r.node)], mutex)

\* ----------------------------------------------------------- serialize ---
\* groups := []interface{}{}; range c.groups
serializeRange(t) ==
    /\ At(t, "ser_hdr")
    /\ Local(t, [th[t] EXCEPT !.pc = IF groups.len = 0 THEN "ser_ret" ELSE "ser_elem",
                              !.s = groups, !.index = 0, !.out = <<>>])

\* One iteration: groups = append(groups, group.Serialize())
serializeElem(t) ==
    /\ At(t, "ser_elem")
    /\ LET r == th[t] IN
       Local(t, [r EXCEPT !.index = r.index + 1,
                   !.pc = IF r.index + 1 < r.s.len THEN "ser_elem" ELSE "ser_ret",
                   !.out = Append(r.out, GroupSerialize(Elem(r.s, r.index)))])

\* return map[string]interface{}{"groups": groups}, and the deferred
\* c.mutex.Unlock()
serializeReturn(t) ==
    /\ At(t, "ser_ret")
    /\ Commit([th EXCEPT ![t] = Return(t, [NoRet EXCEPT !.out = th[t].out])],
              groups, heap, nodes, 0)

\* ----------------------------------------------------------- Next --------
\* The statements of the methods.
Steps(t) ==
    \/ Lock(t)
    \/ Unlock(t)
    \/ getNodeGroupRange(t)
    \/ getNodeGroupElem(t)
    \/ AddNodeGroupRead(t)
    \/ AddNodeGroupStore(t)
    \/ AddNodeGroupAssign(t)
    \/ SortBegin(t)
    \/ SortLess(t)
    \/ SortSwapRead(t)
    \/ SortSwapWrite1(t)
    \/ SortSwapWrite2(t)
    \/ RemoveNodeGroupRange(t)
    \/ RemoveNodeGroupElem(t)
    \/ RemoveNodeGroupSliceLow(t)
    \/ RemoveNodeGroupSliceHigh(t)
    \/ RemoveNodeGroupMove(t)
    \/ RemoveNodeGroupAssign(t)
    \/ getNodeRange(t)
    \/ getNodeElem(t)
    \/ groupAddNodeRead(t)
    \/ groupAddNodeWrite(t)
    \/ groupRemoveNodeRead(t)
    \/ groupRemoveNodeWrite(t)
    \/ serializeRange(t)
    \/ serializeElem(t)
    \/ serializeReturn(t)

\* The statements, and the caller taking the result of a call.
Body(t) == Finish(t) \/ Steps(t)

Next ==
    \E t \in Threads :
        \/ CallGetNodeGroup(t)
        \/ CallAddNodeGroup(t)
        \/ CallRemoveNodeGroup(t)
        \/ CallGetNode(t)
        \/ CallAddNode(t)
        \/ CallRemoveNode(t)
        \/ CallSerialize(t)
        \/ Body(t)

NextSeq ==
    \E t \in Threads :
        \/ SeqGetNodeGroup(t)
        \/ SeqAddNodeGroup(t)
        \/ SeqRemoveNodeGroup(t)
        \/ SeqGetNode(t)
        \/ SeqAddNode(t)
        \/ SeqRemoveNode(t)
        \/ SeqSerialize(t)
        \/ Body(t)

NextLong ==
    \E t \in Threads :
        \/ LongGetNodeGroup(t)
        \/ LongAddNodeGroup(t)
        \/ LongRemoveNodeGroup(t)
        \/ LongGetNode(t)
        \/ LongAddNode(t)
        \/ LongRemoveNode(t)
        \/ LongSerialize(t)
        \/ LongFinish(t)
        \/ Steps(t)

\* Concurrent callers.
Spec == Init /\ [][Next]_vars
\* A single caller.
SpecSeq == InitSeq /\ [][NextSeq]_vars
\* A single caller that goes on calling.
SpecLong == InitLong /\ [][NextLong]_vars

\* ----------------------------------------------------------- properties --
Elems(q) == {q[k] : k \in 1 .. Len(q)}
\* The groups that are entries of c.groups.
Registered == Elems(GroupsSeq)
\* The node ids a group holds, in a given membership.
MemberIds(nn, h) == {NodeId(nn[h][k]) : k \in 1 .. Len(nn[h])}
\* The groups a serialize result lists.
OutHandles(out) == [k \in 1 .. Len(out) |-> out[k].handle]
\* Thread t has returned from a call of op and its result is at hand.
Done(t, op) == th[t].pc = "done" /\ th[t].op = op
\* The first entry of a sequence of groups with the given id, or nil.
FirstWithId(q, id) ==
    IF \E k \in 1 .. Len(q) : GroupId(q[k]) = id
    THEN q[CHOOSE k \in 1 .. Len(q) :
              GroupId(q[k]) = id /\ \A m \in 1 .. k - 1 : GroupId(q[m]) # id]
    ELSE Nil

\* Labels at which a thread is between its first and its last access to
\* c.groups or to the nodes of a group.
SectionLabels ==
    {"gng_elem", "ang_store", "ang_whdr", "sort_hdr", "sort_less", "sort_swap",
     "sort_w1", "sort_w2", "rng_elem", "rng_sl1", "rng_sl2", "rng_move",
     "rng_whdr", "gn_elem", "gng_hdr", "ga_read", "ga_write", "gr_read",
     "gr_write"}
\* Labels at which a thread is inside the statements of AddNodeGroup or
\* RemoveNodeGroup.
MutationLabels ==
    {"ang_read", "ang_store", "ang_whdr", "sort_hdr", "sort_less", "sort_swap",
     "sort_w1", "sort_w2", "rng_hdr", "rng_elem", "rng_sl1", "rng_sl2",
     "rng_move", "rng_whdr"}

\* C1: at most one thread at a time is inside the part of GetNodeGroup,
\* AddNodeGroup, RemoveNodeGroup, GetNode, AddNode or RemoveNode that reads
\* or writes c.groups or group membership.
C1_MutualExclusion ==
    \A t, u \in Threads :
        t # u => ~(th[t].pc \in SectionLabels /\ th[u].pc \in SectionLabels)

\* C2: two concurrent AddNode calls with distinct node ids into the same
\* registered group, both returned without error, leave both nodes members
\* of the group (no lost update).
C2_ConcurrentAddNode ==
    \A t, u \in Threads :
        (/\ t # u
         /\ Done(t, "AddNode") /\ Done(u, "AddNode")
         /\ th[t].argGroup = th[u].argGroup
         /\ th[t].argGroup \in Registered
         /\ NodeId(th[t].argNode) # NodeId(th[u].argNode)
         /\ th[t].ret.err = ErrNone /\ th[u].ret.err = ErrNone)
        => {th[t].argNode, th[u].argNode} \subseteq Elems(nodes[th[t].argGroup])

\* C3: no node id is a member of more than one group registered in the
\* cluster.
C3_NodeInOneGroup ==
    \A g, h \in Registered :
        g # h => MemberIds(nodes, g) \cap MemberIds(nodes, h) = {}

\* C4: whenever no AddNodeGroup or RemoveNodeGroup is in progress, c.groups
\* is sorted by the group ordering key.
C4_SortedWhenQuiet ==
    (\A t \in Threads : th[t].pc \notin MutationLabels) => Sorted(GroupsSeq)

\* C5: every value of c.groups another operation observes is sorted: the
\* sequence of groups serialize read is in key order.
C5_ObservedSorted ==
    \A t \in Threads : Done(t, "serialize") => Sorted(OutHandles(th[t].ret.out))

\* C6: the groups serialize returns are the value c.groups had at one
\* instant between the call and the return.
C6_Snapshot ==
    \A t \in Threads :
        Done(t, "serialize") => OutHandles(th[t].ret.out) \in seen[t]

\* The single caller has returned from op, and its call before that was a
\* successful call of prevOp.
DoneAfter(op, prevOp) == Done(Main, op) /\ th[Main].prev.op = prevOp
\* GetNode(n.id) right after a successful AddNode(n, g).
GetAfterAdd ==
    /\ DoneAfter("GetNode", "AddNode")
    /\ th[Main].id = NodeId(th[Main].prev.argNode)

\* C7 as stated: GetNode(n.id) right after a successful AddNode(n, g)
\* returns (n, g).
C7_Original ==
    GetAfterAdd => /\ th[Main].ret.node = th[Main].prev.argNode
                   /\ th[Main].ret.group = th[Main].prev.argGroup

\* C7: GetNode(n.id) right after a successful AddNode(n, g) returns n and
\* the first entry of c.groups whose id is g.id, the group AddNode resolved.
C7_GetAfterAdd ==
    GetAfterAdd =>
        /\ th[Main].ret.node = th[Main].prev.argNode
        /\ th[Main].ret.group =
              FirstWithId(GroupsSeq, GroupId(th[Main].prev.argGroup))
        /\ th[Main].ret.group # Nil

C7_Witness ==
    /\ GetAfterAdd
    /\ th[Main].prev.argGroup = GroupCopy
    /\ th[Main].ret.group # GroupCopy

\* AddNode(n2, g) right after a successful AddNode(n, g), n2.id = n.id.
AddAfterAdd ==
    /\ DoneAfter("AddNode", "AddNode")
    /\ th[Main].argGroup = th[Main].prev.argGroup
    /\ th[Main].argNode # Nil
    /\ NodeId(th[Main].argNode) = NodeId(th[Main].prev.argNode)

\* The cluster is as it was when the single caller made its call.
Unchanged == GroupsSeq = th[Main].pre.gs /\ nodes = th[Main].pre.nodes

\* C8: AddNode(n2, g) with n2.id = n.id right after a successful
\* AddNode(n, g) fails with DuplicateNodeError and changes neither c.groups
\* nor the members of any group.
C8_DuplicateNode ==
    AddAfterAdd => th[Main].ret.err = DuplicateNodeError /\ Unchanged

C8_Witness == AddAfterAdd /\ th[Main].argNode # th[Main].prev.argNode

\* RemoveNodeGroup(g) right after a successful RemoveNodeGroup(g).
RemoveAfterRemove ==
    /\ DoneAfter("RemoveNodeGroup", "RemoveNodeGroup")
    /\ th[Main].argGroup = th[Main].prev.argGroup
\* RemoveNodeGroup(g) of a group that is no entry of c.groups at the call.
RemoveAbsent ==
    /\ Done(Main, "RemoveNodeGroup")
    /\ th[Main].argGroup # Nil
    /\ th[Main].argGroup \notin Elems(th[Main].pre.gs)
NotFoundUnchanged ==
    th[Main].ret.err = NodeGroupNotFoundError /\ GroupsSeq = th[Main].pre.gs

\* C9 as stated: RemoveNodeGroup(g) of a group that is not in the cluster,
\* and RemoveNodeGroup(g) right after a successful RemoveNodeGroup(g), fail
\* with NodeGroupNotFoundError and leave c.groups unchanged.
C9_Original == (RemoveAbsent \/ RemoveAfterRemove) => NotFoundUnchanged

\* C9: RemoveNodeGroup(g) of a group that is no entry of c.groups (never
\* added, or removed as often as it was added) fails with
\* NodeGroupNotFoundError and leaves c.groups unchanged.
C9_RemoveAbsent == RemoveAbsent => NotFoundUnchanged

C9_Witness == RemoveAbsent /\ RemoveAfterRemove

\* RemoveNode(n) of a node whose id no registered group holds at the call.
RemoveUnknownNode ==
    /\ Done(Main, "RemoveNode")
    /\ th[Main].argNode # Nil
    /\ \A g \in Elems(th[Main].pre.gs) :
           NodeId(th[Main].argNode) \notin MemberIds(th[Main].pre.nodes, g)

\* C10: RemoveNode(n) of a present node whose id no registered group holds
\* fails with NodeNotFoundError and changes no group's members.
C10_RemoveUnknownNode ==
    RemoveUnknownNode => th[Main].ret.err = NodeNotFoundError /\ Unchanged

C10_Witness ==
    /\ RemoveUnknownNode
    /\ th[Main].pre.gs # <<>>
    /\ \E g \in Registered : nodes[g] # <<>>

\* The single caller is in, or has returned from, a call of AddNode with a
\* present node and a nil group; the id of the node is, or is not, held by a
\* group registered at the call.
AddToNilGroup ==
    /\ th[Main].op = "AddNode"
    /\ th[Main].argNode # Nil
    /\ th[Main].argGroup = Nil
HeldAtCall(id) ==
    \E g \in Elems(th[Main].pre.gs) : id \in MemberIds(th[Main].pre.nodes, g)
\* The call of the single caller has a nil argument that the method
\* requires, AddNode(n, nil) apart.
NilNode == th[Main].op \in {"AddNode", "RemoveNode"} /\ th[Main].argNode = Nil
NilGroup == th[Main].op = "RemoveNodeGroup" /\ th[Main].argGroup = Nil
\* The call has returned this error.
Failed(e) == th[Main].pc = "done" /\ th[Main].ret.err = e
Returned == th[Main].pc = "done"
NilArgumentErrors ==
    /\ NilNode /\ Returned => Failed(NodeRequiredError)
    /\ NilGroup /\ Returned => Failed(NodeGroupRequiredError)
    /\ NilNode \/ NilGroup \/ AddToNilGroup => th[Main].pc # "panic"

\* C11 as stated: in every state of the cluster AddNode(n, nil) with a
\* present node fails with NodeGroupRequiredError, AddNode(nil, g) and
\* RemoveNode(nil) fail with NodeRequiredError, RemoveNodeGroup(nil) fails
\* with NodeGroupRequiredError, and none of them panics.
C11_Original ==
    /\ NilArgumentErrors
    /\ AddToNilGroup /\ Returned => Failed(NodeGroupRequiredError)

\* C11: AddNode(nil, g) and RemoveNode(nil) fail with NodeRequiredError and
\* RemoveNodeGroup(nil) fails with NodeGroupRequiredError in every state of
\* the cluster; AddNode(n, nil) with a present node fails with
\* DuplicateNodeError when a registered group holds a node of n's id and with
\* NodeGroupRequiredError otherwise; none of them panics.
C11_NilArguments ==
    /\ NilArgumentErrors
    /\ AddToNilGroup /\ Returned =>
           IF HeldAtCall(NodeId(th[Main].argNode))
           THEN Failed(DuplicateNodeError)
           ELSE Failed(NodeGroupRequiredError)

C11_Witness ==
    /\ AddToNilGroup
    /\ Failed(DuplicateNodeError)
    /\ HeldAtCall(NodeId(th[Main].argNode))


\* No two entries of a sequence of groups have the same id.
NoDupIds(q) ==
    \A i, j \in 1 .. Len(q) : i # j => GroupId(q[i]) # GroupId(q[j])
IdsOf(q) == {GroupId(q[k]) : k \in 1 .. Len(q)}
\* The single caller is between two calls.
Quiet == th[Main].pc \in {"idle", "done"}
\* The call was AddNodeGroup of a group whose id an entry of c.groups had.
AddedKnownId ==
    /\ th[Main].op = "AddNodeGroup"
    /\ GroupId(th[Main].argGroup) \in IdsOf(th[Main].pre.gs)

\* C12 as stated: after any sequence of calls no two entries of c.groups
\* have the same group id.
C12_Original == Quiet => NoDupIds(GroupsSeq)

\* C12: a call made when no two entries of c.groups have the same id leaves
\* no two entries with the same id, unless it is AddNodeGroup of a group
\* whose id an entry already has.
C12_UniqueIds ==
    Returned /\ NoDupIds(th[Main].pre.gs) /\ ~AddedKnownId => NoDupIds(GroupsSeq)

C12_Witness ==
    /\ Done(Main, "AddNodeGroup")
    /\ ~AddedKnownId
    /\ NoDupIds(th[Main].pre.gs)
    /\ Len(GroupsSeq) = MaxGroups


\* AddNode of a node whose id a registered group A holds, into another
\* registered group B.
AddHeldElsewhere ==
    /\ Done(Main, "AddNode")
    /\ th[Main].argNode # Nil
    /\ th[Main].argGroup \in Elems(th[Main].pre.gs)
    /\ \E a \in Elems(th[Main].pre.gs) :
           /\ a # th[Main].argGroup
           /\ NodeId(th[Main].argNode) \in MemberIds(th[Main].pre.nodes, a)
\* GetNode(x) right after a successful RemoveNode of a node with id x.
GetAfterRemove ==
    /\ DoneAfter("GetNode", "RemoveNode")
    /\ th[Main].id = NodeId(th[Main].prev.argNode)
\* AddNode of a node with id x into a registered group right after a
\* successful RemoveNode of a node with id x.
AddAfterRemove ==
    /\ DoneAfter("AddNode", "RemoveNode")
    /\ th[Main].argNode # Nil
    /\ NodeId(th[Main].argNode) = NodeId(th[Main].prev.argNode)
    /\ th[Main].argGroup \in Elems(th[Main].pre.gs)

\* C13: a node id that a registered group A holds cannot be added to another
\* registered group B (DuplicateNodeError, nothing changes); right after a
\* successful RemoveNode of the id, GetNode finds no node and no group,
\* AddNode of the id into a registered group B succeeds, and GetNode then
\* returns B as the group.
C13_Transfer ==
    /\ AddHeldElsewhere => Failed(DuplicateNodeError) /\ Unchanged
    /\ GetAfterRemove => th[Main].ret.node = Nil /\ th[Main].ret.group = Nil
    /\ AddAfterRemove => Failed(ErrNone)
    /\ GetAfterAdd /\ th[Main].prev.argGroup \in Registered =>
           th[Main].ret.group = th[Main].prev.argGroup


\* Thread t has called a method that has not returned.
InCall(t) == th[t].pc \notin {"idle", "done"}

\* C14: every call that has been made returns under fair scheduling: as
\* long as a call has not returned, some thread has a statement to execute
\* (no call is left blocked on the mutex for ever, and none is cut off).
C14_Completes ==
    \A t \in Threads : InCall(t) => \E u \in Threads : ENABLED Steps(u)


\* The group getNodeGroup resolves for the group the single caller passed,
\* in c.groups as it was at the call.
ResolvedAtCall == FirstWithId(th[Main].pre.gs, GroupId(th[Main].argGroup))
\* The nodes of all groups after node n has been added to group g.
NodesWith(nn, g, n) == [nn EXCEPT ![g] = Append(@, n)]
\* The error AddNode returns for its arguments and the cluster at the call:
\* the first check that fails, in the order of the code.
AddNodeError ==
    IF th[Main].argNode = Nil THEN NodeRequiredError
    ELSE IF HeldAtCall(NodeId(th[Main].argNode)) THEN DuplicateNodeError
    ELSE IF th[Main].argGroup = Nil THEN NodeGroupRequiredError
    ELSE IF ResolvedAtCall = Nil THEN NodeGroupNotFoundError
    ELSE ErrNone

\* C15: AddNode returns the first failure of NodeRequiredError,
\* DuplicateNodeError, NodeGroupRequiredError, NodeGroupNotFoundError, in
\* this order, and then the group is not asked to add the node (nothing
\* changes); when all four checks pass it returns what the group's addNode
\* returns, which has added the node.
C15_CheckOrder ==
    Done(Main, "AddNode") =>
        /\ Failed(AddNodeError)
        /\ IF AddNodeError = ErrNone
           THEN /\ GroupsSeq = th[Main].pre.gs
                /\ nodes = NodesWith(th[Main].pre.nodes, ResolvedAtCall,
                                      th[Main].argNode)
           ELSE Unchanged

\* Two checks fail at once and the earlier one is reported.
C15_Witness ==
    /\ Done(Main, "AddNode")
    /\ th[Main].argNode # Nil
    /\ HeldAtCall(NodeId(th[Main].argNode))
    /\ th[Main].argGroup # Nil
    /\ ResolvedAtCall = Nil
    /\ Failed(DuplicateNodeError)


\* AddNode(n, h) of a present node whose id no registered group holds, with
\* a present group h.
AddToGroup ==
    /\ Done(Main, "AddNode")
    /\ th[Main].argNode # Nil
    /\ th[Main].argGroup # Nil
    /\ ~HeldAtCall(NodeId(th[Main].argNode))
\* The members of the group the caller passed are as they were at the call.
SuppliedUntouched ==
    nodes[th[Main].argGroup] = th[Main].pre.nodes[th[Main].argGroup]

\* C16: AddNode(n, h) adds n to the first entry of c.groups whose id is
\* h.id and to no other group, so not to h when h is a detached copy; when
\* no entry has that id it fails with NodeGroupNotFoundError and the members
\* of h stay as they were.
C16_ResolvedGroup ==
    AddToGroup =>
        IF ResolvedAtCall # Nil
        THEN /\ Failed(ErrNone)
             /\ th[Main].argNode \in Elems(nodes[ResolvedAtCall])
             /\ \A g \in AllGroupHandles \ {ResolvedAtCall} :
                    nodes[g] = th[Main].pre.nodes[g]
        ELSE Failed(NodeGroupNotFoundError) /\ SuppliedUntouched

C16_Witness ==
    /\ AddToGroup
    /\ th[Main].argGroup \notin Elems(th[Main].pre.gs)
    /\ ResolvedAtCall # Nil
    /\ SuppliedUntouched
    /\ Failed(ErrNone)


\* A successful RemoveNodeGroup(g) of the single caller.
Removed == Done(Main, "RemoveNodeGroup") /\ Failed(ErrNone)

ValidationErrors ==
    {NodeGroupRequiredError, NodeGroupNotFoundError, DuplicateNodeError,
     NodeRequiredError, NodeNotFoundError}
\* A sequence without its k-th entry.
Dropped(q, k) == [i \in 1 .. Len(q) - 1 |-> q[IF i < k THEN i ELSE i + 1]]
\* The cluster differs from what it was at the call by one entry appended
\* and sorted in, by one entry removed, by one node added to one group, or
\* by one node of the given id removed from one group.
OneAppend ==
    /\ \E k \in 1 .. Len(GroupsSeq) :
           /\ GroupsSeq[k] = th[Main].argGroup
           /\ Dropped(GroupsSeq, k) = th[Main].pre.gs
    /\ nodes = th[Main].pre.nodes
OneRemoval ==
    /\ \E k \in 1 .. Len(th[Main].pre.gs) :
           /\ th[Main].pre.gs[k] = th[Main].argGroup
           /\ GroupsSeq = Dropped(th[Main].pre.gs, k)
    /\ nodes = th[Main].pre.nodes
OneNodeAdded ==
    /\ GroupsSeq = th[Main].pre.gs
    /\ \E g \in AllGroupHandles :
           nodes = NodesWith(th[Main].pre.nodes, g, th[Main].argNode)
OneNodeRemoved ==
    /\ GroupsSeq = th[Main].pre.gs
    /\ \E g \in AllGroupHandles : \E m \in Elems(th[Main].pre.nodes[g]) :
           /\ NodeId(m) = NodeId(th[Main].argNode)
           /\ nodes = [th[Main].pre.nodes EXCEPT ![g] = Without(@, m)]

\* C18: a call that returns one of the errors of the Cluster's own checks
\* leaves c.groups and the members of every group as they were at the call;
\* a call that returns without error has made the one change of its method
\* in full, and a lookup or serialize none.
C18_Frame ==
    Returned =>
        IF th[Main].ret.err \in ValidationErrors THEN Unchanged
        ELSE CASE th[Main].op = "AddNodeGroup" -> OneAppend
               [] th[Main].op = "RemoveNodeGroup" -> OneRemoval
               [] th[Main].op = "AddNode" -> OneNodeAdded
               [] th[Main].op = "RemoveNode" -> OneNodeRemoved
               [] OTHER -> Unchanged

\* RemoveNodeGroup found no entry that is the group, in a cluster with
\* entries, one of them with the id of the group.
C18_Witness ==
    /\ Done(Main, "RemoveNodeGroup")
    /\ Failed(NodeGroupNotFoundError)
    /\ GroupId(th[Main].argGroup) \in IdsOf(th[Main].pre.gs)
    /\ \E g \in Registered : nodes[g] # <<>>


\* All threads have returned from concurrent calls of AddNodeGroup with
\* pairwise distinct groups.
AllAddedGroups ==
    /\ \A t \in Threads : Done(t, "AddNodeGroup")
    /\ \A t, u \in Threads : t # u => th[t].argGroup # th[u].argGroup

\* C19: after concurrent AddNodeGroup calls with distinct groups have all
\* returned, each of the groups is an entry of c.groups (none is lost) and
\* c.groups is sorted.
C19_ConcurrentAddNodeGroup ==
    AllAddedGroups =>
        /\ \A t \in Threads : th[t].argGroup \in Registered
        /\ Sorted(GroupsSeq)

\* Thread t executes the statement of AddNode that inserts the node into
\* the group it resolved while thread u is in, or has returned from, a
\* concurrent RemoveNodeGroup of the group AddNode was called with.
InsertsBesideRemove(t, u) ==
    /\ t # u
    /\ th[t].op = "AddNode" /\ th[t].pc = "ga_write" /\ th'[t].pc = "done"
    /\ th[u].op = "RemoveNodeGroup"
    /\ th[u].argGroup = th[t].argGroup

\* C20: when AddNode(n, g) runs beside RemoveNodeGroup(g), the group it
\* inserts n into is an entry of c.groups at the moment of the insertion.
C20_AddIntoRegistered ==
    [][\A t, u \in Threads :
          InsertsBesideRemove(t, u) => th[t].group \in Registered]_vars


=============================================================================
